---- MODULE Spec2Model ----
(***************************************************************************)
(* Model of the tiptap-react-ui-demo front end:                            *)
(*   - useDebouncedCallback          (src/src/App.tsx, lines 201-233)      *)
(*   - RichTextEditor, the bridge    (src/src/components/RichTextEditor.tsx)*)
(*   - App, the hosting caller       (src/src/App.tsx, lines 5-60)         *)
(*   - Popover and the link popover  (src/src/components/ui/popover.tsx,   *)
(*                                    src/src/components/rte/RichTextEditorUI.tsx) *)
(*   - App's Copy button          (src/src/App.tsx, lines 17-56)        *)
(*   - the image input             (RichTextEditorUI.tsx, lines 100-117)  *)
(*   - ToolbarDropdownButton       (src/src/components/rte/Toolbar.tsx)   *)
(* Time is a discrete clock.  A timer set with delay d has d ticks left;   *)
(* a timer with no tick left is due and runs before the clock moves on.    *)
(* Renders, effect runs and user events are separate steps that interleave *)
(* freely, as the browser's task queue lets them.                          *)
(***************************************************************************)
EXTENDS Integers, Sequences, FiniteSets, TLC

\* ------------------------------------------------------------------ bounds
MaxCalls == 3       \* wrapper calls (= timers ever created) in one run
DebounceTicks == 2  \* the debounce window App passes, in clock ticks
MaxSets == 1       \* prop changes a caller other than App makes on its own
MaxNotes == 3       \* onOpenChange notifications recorded in one run
MaxScript == 4      \* triggers in the script run on a pair of popovers
MaxCopies == 2      \* clicks on the Copy button in one run
MaxPicks == 2       \* change events of the file input in one run
\* `2000` of handleCopyClick, in clock ticks (the debounce window is 300).
ConfirmTicks == 3

\* ------------------------------------------------------------- value sets
\* Callback identities: a fresh closure per render is a new identity.
Callbacks == {1, 2}
\* Delays a caller of the hook may pass.
Delays == {DebounceTicks, DebounceTicks + 1}
\* Engine documents, and the markup strings a caller may supply.
Docs == {"empty", "a", "b"}
Markup == {"", "<p></p>", "<p>a</p>", "<P>a</P>", "<p>b</p>"}
\* Arguments handed to the wrapper of a bare hook.
HookArgs == {"<p>a</p>", "<p>b</p>"}
NoTimer == 0
\* No clipboard write has succeeded yet.
NoWrite == -1
None == [none |-> TRUE]

\* editor.getHTML(): the engine's serializer.
Serialize(d) ==
    CASE d = "empty" -> "<p></p>"
      [] d = "a"     -> "<p>a</p>"
      [] d = "b"     -> "<p>b</p>"

\* The engine's parser, applied by setContent and by the `content` option:
\* an empty string is an empty document, tag case is normalised.
Parse(m) ==
    CASE m = ""         -> "empty"
      [] m = "<p></p>"  -> "empty"
      [] m = "<p>a</p>" -> "a"
      [] m = "<P>a</P>" -> "a"
      [] m = "<p>b</p>" -> "b"

VARIABLES
    \* --- clock and owner
    mounted,        \* the component owning the hook is mounted
    \* --- useDebouncedCallback
    callback,       \* `callback` argument of the latest render
    delay,          \* `delay` argument of the latest render
    callbackRef,    \* callbackRef.current
    timeoutRef,     \* timeoutRef.current (NoTimer = null)
    timers,         \* live browser timers: records [id, left, args]
    nextTimerId,    \* next id setTimeout returns
    cbEffectPending,\* the [callback] effect of the latest render has not run
    \* --- RichTextEditor / App
    caller,         \* "hook": bare hook owner, "app": App, "generic": any caller
    htmlContent,    \* caller state handed down as `value`
    value,          \* `value` prop of the latest RichTextEditor render
    renderPending,  \* a state update asks for a render
    nSets,          \* prop changes made by the caller on its own
    editorReady,    \* the engine instance exists
    editorSeen,     \* `editor` was non-null in the latest render
    doc,            \* the engine's document
    syncPending,    \* the [htmlContent, editor] effect has not run
    \* --- observation (history) variables
    lastCall,       \* the latest wrapper call: [age, args, d, cb, id]
    endedBefore,    \* bursts that had ended when the latest call was made
    nInvs,          \* number of underlying invocations so far
    lastInv,        \* the latest underlying invocation
    pendingAtUnmount,\* timers that were live when the owner unmounted
    lastSync,       \* what the latest prop-sync effect run did
    pushesSinceSet, \* corrective pushes since the prop last changed
    rendersSinceSet,\* renders since the prop last changed (capped)
    \* --- Popover and the link form of RichTextEditorUI
    isControlled,   \* an `open` prop is supplied
    hasListener,    \* an `onOpenChange` prop is supplied
    controlledOpen, \* the parent's state handed down as `open`
    internalOpen,   \* Popover's own useState
    linkInput,      \* text of the URL field
    currentLink,    \* href of the link at the selection (NoLink = null)
    notes,          \* values onOpenChange was called with
    lastReq,        \* what the latest setIsOpen call did
    lastClose,      \* what the latest activation of a close control did
    lastPlain,      \* what the latest click on a plain PopoverClose did
    lastRender,     \* what the latest render of a popover part did
    pair,           \* a controlled and an uncontrolled Popover, same script
    \* --- App's Copy button and the image input of RichTextEditorUI
    copied,         \* App's `copied` state
    writesInFlight, \* clipboard writes whose promise is still pending
    confirmTimers,  \* ticks left of the live confirmation timers, oldest first
    nCopies,        \* clicks on the Copy button so far
    lastCopy,       \* what the latest click handed to the clipboard
    sinceWrite,     \* ticks since the latest clipboard write succeeded
    readsInFlight,  \* FileReader reads that have not ended
    nPicks,         \* change events of the file input so far
    lastPick,       \* what the latest change event of the file input did
    lastRead,       \* what the end of the latest read did
    afterUnmount,   \* callbacks that ran after the unmount
    \* --- the disclosure instances of the toolbar
    discOpen,       \* isOpen of each instance
    discMounted,    \* the floating content of each instance is in the DOM
    lastLayout,     \* what the latest scroll or resize event did
    lastSelect,     \* what the latest click on a dropdown option did
    \* --- the engine's history
    canUndo         \* editor.can().undo()

hookVars == <<callback, delay, callbackRef, timeoutRef, timers, nextTimerId,
              cbEffectPending>>
bridgeVars == <<htmlContent, value, renderPending, nSets, editorReady, editorSeen,
                doc, syncPending>>
histVars == <<lastCall, endedBefore, nInvs, lastInv, pendingAtUnmount, lastSync, pushesSinceSet,
              rendersSinceSet>>
popVars == <<isControlled, hasListener, controlledOpen, internalOpen,
             linkInput, currentLink, notes, lastReq, lastClose>>
editorVars == <<mounted, caller, hookVars, bridgeVars, histVars, canUndo>>
popMoreVars == <<lastPlain, lastRender, pair>>
asyncVars == <<copied, writesInFlight, confirmTimers, nCopies, lastCopy,
               sinceWrite, readsInFlight, nPicks, lastPick, lastRead,
               afterUnmount>>
discVars == <<discOpen, discMounted, lastLayout, lastSelect>>
otherVars == <<popMoreVars, asyncVars, discVars>>
vars == <<editorVars, popVars, otherVars>>

\* =================================================== useDebouncedCallback
Min(a, b) == IF a < b THEN a ELSE b
Max(a, b) == IF a > b THEN a ELSE b

\* clearTimeout(id): cancelling a fired or unknown id does nothing.
clearTimeout(ts, id) == {tm \in ts : tm.id # id}

ClearPending_keep(ts, ref) == ts
\* `if (timeoutRef.current) clearTimeout(timeoutRef.current)` of the wrapper.
ClearPending(ts, ref) == IF ref # NoTimer THEN clearTimeout(ts, ref) ELSE ts

UnmountCleanup_keep(ts, ref) == ts
\* the cleanup returned by the [] effect.
UnmountCleanup(ts, ref) == IF ref # NoTimer THEN clearTimeout(ts, ref) ELSE ts

StoredRef_stale(id, ref) == ref
\* `timeoutRef.current = setTimeout(...)`: the ref takes the new timer's id.
StoredRef(id, ref) == id

\* The wrapper body: cancel, then setTimeout(() => callbackRef.current(...args), delay).
DebouncedCallback(args) ==
    /\ timers' = ClearPending(timers, timeoutRef)
                    \cup {[id |-> nextTimerId, left |-> delay, args |-> args]}
    /\ timeoutRef' = StoredRef(nextTimerId, timeoutRef)
    /\ nextTimerId' = nextTimerId + 1
    /\ lastCall' = [age |-> 0, args |-> args, d |-> delay, cb |-> callback,
                    id |-> nextTimerId]
    /\ endedBefore' = IF lastCall # None /\ lastCall.age >= lastCall.d
                      THEN endedBefore + 1 ELSE endedBefore

Due(tm) == tm.left = 0

\* The timer callback: callbackRef.current(...args).  timeoutRef keeps the id.
FireCore(tm) ==
    /\ tm \in timers
    /\ Due(tm)
    /\ timers' = timers \ {tm}
    /\ nInvs' = nInvs + 1
    /\ lastInv' = [args |-> tm.args, cb |-> callbackRef,
                   latest |-> callback, id |-> tm.id, call |-> lastCall,
                   html |-> IF editorReady THEN Serialize(doc) ELSE "none"]

\* ------------------------------------------------ steps of the bare hook
\* The owner renders with some callback and delay.
HookRender(cb, d) ==
    /\ caller = "hook"
    /\ mounted
    /\ ~cbEffectPending
    /\ <<cb, d>> # <<callback, delay>>
    /\ callback' = cb
    /\ delay' = d
    /\ cbEffectPending' = (cb # callback)
    /\ UNCHANGED <<mounted, caller, callbackRef, timeoutRef, timers,
                   nextTimerId, bridgeVars, lastCall, endedBefore, nInvs, lastInv,
                   pendingAtUnmount,
                   lastSync, pushesSinceSet, rendersSinceSet>>
    /\ UNCHANGED <<popVars, otherVars, canUndo>>

\* useEffect(() => { callbackRef.current = callback }, [callback])
HookEffects ==
    /\ caller = "hook"
    /\ mounted
    /\ cbEffectPending
    /\ callbackRef' = callback
    /\ cbEffectPending' = FALSE
    /\ UNCHANGED <<mounted, caller, callback, delay, timeoutRef, timers,
                   nextTimerId, bridgeVars, lastCall, endedBefore, nInvs, lastInv,
                   pendingAtUnmount,
                   lastSync, pushesSinceSet, rendersSinceSet>>
    /\ UNCHANGED <<popVars, otherVars, canUndo>>

\* Somebody calls the wrapper of the latest render.
WrapperCall(args) ==
    /\ caller = "hook"
    /\ mounted
    /\ nextTimerId <= MaxCalls
    /\ \A tm \in timers : ~Due(tm)
    /\ DebouncedCallback(args)
    /\ UNCHANGED <<mounted, caller, callback, delay, callbackRef,
                   cbEffectPending, bridgeVars, nInvs, lastInv, pendingAtUnmount,
                   lastSync, pushesSinceSet, rendersSinceSet>>
    /\ UNCHANGED <<popVars, otherVars, canUndo>>

\* A due timer runs.
TimerFire ==
    /\ caller = "hook"
    /\ \E tm \in timers : FireCore(tm)
    /\ UNCHANGED <<mounted, caller, callback, delay, callbackRef,
                   timeoutRef, nextTimerId, cbEffectPending, bridgeVars, lastCall,
                   endedBefore,
                   pendingAtUnmount, lastSync, pushesSinceSet, rendersSinceSet>>
    /\ UNCHANGED <<popVars, otherVars, canUndo>>

Aged(c) == IF c = None THEN c ELSE [c EXCEPT !.age = Min(c.age + 1, c.d)]
Elapsed(ts) == {[tm EXCEPT !.left = tm.left - 1] : tm \in ts}

\* The clock advances by one tick once every due timer has run.
Tick ==
    /\ \A tm \in timers : ~Due(tm)
    /\ timers' = Elapsed(timers)
    /\ lastCall' = Aged(lastCall)
    /\ pendingAtUnmount' = {[tm EXCEPT !.left = Max(tm.left - 1, -1)] :
                               tm \in pendingAtUnmount}
    /\ \A i \in 1..Len(confirmTimers) : confirmTimers[i] > 0
    /\ confirmTimers' = [i \in 1..Len(confirmTimers) |-> confirmTimers[i] - 1]
    /\ sinceWrite' = IF sinceWrite = NoWrite THEN NoWrite
                     ELSE Min(sinceWrite + 1, ConfirmTicks)
    /\ UNCHANGED <<mounted, caller, callback, delay, callbackRef, timeoutRef,
                   nextTimerId, cbEffectPending, bridgeVars, endedBefore,
                   nInvs, lastInv, lastSync, pushesSinceSet, rendersSinceSet>>
    /\ UNCHANGED <<popVars, canUndo, discVars, popMoreVars, copied,
                   writesInFlight, nCopies,
                   lastCopy, readsInFlight, nPicks, lastPick, lastRead,
                   afterUnmount>>

\* The owner unmounts: effect cleanups run, pending effects are dropped.
Unmount ==
    /\ mounted
    /\ \A tm \in timers : ~Due(tm)
    /\ mounted' = FALSE
    /\ timers' = UnmountCleanup(timers, timeoutRef)
    /\ pendingAtUnmount' = timers
    /\ cbEffectPending' = FALSE
    /\ syncPending' = FALSE
    /\ renderPending' = FALSE
    /\ UNCHANGED <<caller, callback, delay, callbackRef, timeoutRef,
                   nextTimerId, htmlContent, value, nSets, editorReady, editorSeen,
                   doc, lastCall, endedBefore, nInvs, lastInv, lastSync,
                   pushesSinceSet, rendersSinceSet>>
    /\ UNCHANGED <<popVars, otherVars, canUndo>>

\* The popover is closed and the link form empty.
InitPopoverIdle ==
    /\ isControlled = FALSE
    /\ hasListener = FALSE
    /\ controlledOpen = FALSE
    /\ internalOpen = FALSE
    /\ linkInput = <<>>
    /\ currentLink = <<>>
    /\ notes = <<>>
    /\ lastReq = None
    /\ lastClose = None

\* No popover part was rendered or clicked, and no pair is under script.
InitPopMoreIdle ==
    /\ lastPlain = None
    /\ lastRender = None
    /\ pair = None

\* The Copy button was never clicked and no file was ever picked.
InitAsyncIdle ==
    /\ copied = FALSE
    /\ writesInFlight = 0
    /\ confirmTimers = <<>>
    /\ nCopies = 0
    /\ lastCopy = None
    /\ sinceWrite = NoWrite
    /\ readsInFlight = 0
    /\ nPicks = 0
    /\ lastPick = None
    /\ lastRead = None
    /\ afterUnmount = {}

\* Every disclosure instance of the toolbar starts closed (useState(false),
\* no defaultOpen), with nothing of it in the DOM.
InitDisclosures ==
    /\ discOpen = [i \in {"link", "heading", "align"} |-> FALSE]
    /\ discMounted = [i \in {"link", "heading", "align"} |-> FALSE]
    /\ lastLayout = None
    /\ lastSelect = None

InitCommon ==
    /\ mounted = TRUE
    /\ canUndo = FALSE
    /\ timeoutRef = NoTimer
    /\ timers = {}
    /\ nextTimerId = 1
    /\ cbEffectPending = FALSE
    /\ lastCall = None
    /\ endedBefore = 0
    /\ nInvs = 0
    /\ lastInv = None
    /\ pendingAtUnmount = {}
    /\ lastSync = None
    /\ pushesSinceSet = 0
    /\ rendersSinceSet = 0

InitHook ==
    /\ InitCommon
    /\ InitPopMoreIdle
    /\ InitAsyncIdle
    /\ InitDisclosures
    /\ InitPopoverIdle
    /\ caller = "hook"
    /\ callback \in Callbacks
    /\ callbackRef = callback
    /\ delay \in Delays
    /\ htmlContent = ""
    /\ value = ""
    /\ renderPending = FALSE
    /\ nSets = 0
    /\ editorReady = FALSE
    /\ editorSeen = FALSE
    /\ doc = "empty"
    /\ syncPending = FALSE

NextHook ==
    \/ \E cb \in Callbacks, d \in Delays : HookRender(cb, d)
    \/ HookEffects
    \/ \E m \in HookArgs : WrapperCall(m)
    \/ TimerFire
    \/ Tick
    \/ Unmount

SpecHook == InitHook /\ [][NextHook]_vars

\* ================================================ RichTextEditor and App
EmitUpdateOnSync_on == TRUE
\* `{ emitUpdate: false }` of the setContent call in the prop-sync effect.
EmitUpdateOnSync == FALSE

AddToHistoryOnSync_on == TRUE
\* `setMeta('addToHistory', false)` of the chain in the prop-sync effect:
\* the history plugin does not record the transaction.
AddToHistoryOnSync == FALSE

\* `disabled={!canUndo}` of the Undo button.
UndoDisabled == ~canUndo

NeedsPush_never(v, html) == FALSE
NeedsPush_parsed(v, html) == Parse(v) # Parse(html)
\* `htmlContent !== editor.getHTML()`: exact string comparison.
NeedsPush(v, html) == v # html

SyncDepsChanged_editorOnly(v0, e0, v1, e1) == e0 # e1
SyncDepsChanged_always(v0, e0, v1, e1) == TRUE
\* The dependency array [htmlContent, editor] of the prop-sync effect.
SyncDepsChanged(v0, e0, v1, e1) == v0 # v1 \/ e0 # e1

\* The effects of the first commit: the prop-sync effect finds a null editor
\* and does nothing; useEditor (immediatelyRender: false) then creates the
\* engine from the `content` option and asks for a render.
MountEffects ==
    /\ caller # "hook"
    /\ mounted
    /\ ~editorReady
    /\ syncPending
    /\ editorReady' = TRUE
    /\ doc' = Parse(value)
    /\ syncPending' = FALSE
    /\ renderPending' = TRUE
    /\ UNCHANGED <<mounted, caller, hookVars, htmlContent, value, nSets,
                   editorSeen, histVars>>
    /\ UNCHANGED <<popVars, otherVars, canUndo>>

\* The user changes the document (the editing surface is on screen once a
\* render has returned it, `if (!editor) return null`): the engine runs
\* onTransaction (forceUpdate) and onUpdate
\* (debouncedOnHtmlChange(editor.getHTML())).
UserEdit(d) ==
    /\ caller # "hook"
    /\ mounted
    /\ editorSeen
    /\ d # doc
    /\ nextTimerId <= MaxCalls
    /\ \A tm \in timers : ~Due(tm)
    /\ doc' = d
    /\ DebouncedCallback(Serialize(d))
    /\ renderPending' = TRUE
    /\ canUndo' = TRUE
    /\ UNCHANGED <<mounted, caller, callback, delay, callbackRef,
                   cbEffectPending, htmlContent, value, nSets, editorReady,
                   editorSeen, syncPending, nInvs, lastInv, pendingAtUnmount,
                   lastSync,
                   pushesSinceSet, rendersSinceSet>>
    /\ UNCHANGED <<popVars, otherVars>>

\* A due timer runs onChange.  App's handleRichTextChange stores the markup;
\* another caller may store it or ignore it.
RelayFire ==
    /\ caller # "hook"
    /\ \E tm \in timers :
          /\ FireCore(tm)
          /\ \E echo \in (IF caller = "app" THEN {TRUE} ELSE BOOLEAN) :
                htmlContent' = IF echo THEN tm.args ELSE htmlContent
    /\ renderPending' = (renderPending \/ (mounted /\ htmlContent' # htmlContent))
    /\ UNCHANGED <<mounted, caller, callback, delay, callbackRef,
                   timeoutRef, nextTimerId, cbEffectPending, value, nSets,
                   editorReady, editorSeen, doc, syncPending, lastCall,
                   endedBefore,
                   pendingAtUnmount, lastSync, pushesSinceSet, rendersSinceSet>>
    /\ UNCHANGED <<popVars, otherVars, canUndo>>

\* A caller other than App sets the prop to a value of its own.
CallerSetsValue(v) ==
    /\ caller = "generic"
    /\ mounted
    /\ v # htmlContent
    /\ nSets < MaxSets
    /\ \A tm \in timers : ~Due(tm)
    /\ htmlContent' = v
    /\ nSets' = nSets + 1
    /\ renderPending' = TRUE
    /\ UNCHANGED <<mounted, caller, hookVars, value, editorReady,
                   editorSeen, doc, syncPending, histVars>>
    /\ UNCHANGED <<popVars, otherVars, canUndo>>

\* RichTextEditor renders (the effects of the previous render have run).
Render ==
    /\ caller # "hook"
    /\ mounted
    /\ renderPending
    /\ ~syncPending
    /\ \A tm \in timers : ~Due(tm)
    /\ value' = htmlContent
    /\ editorSeen' = editorReady
    /\ syncPending' = SyncDepsChanged(value, editorSeen, value', editorSeen')
    /\ renderPending' = FALSE
    /\ IF value' # value
       THEN pushesSinceSet' = 0 /\ rendersSinceSet' = 0
       ELSE pushesSinceSet' = pushesSinceSet
            /\ rendersSinceSet' = Min(rendersSinceSet + 1, 1)
    /\ UNCHANGED <<mounted, caller, hookVars, htmlContent, nSets,
                   editorReady, doc, lastCall, endedBefore, nInvs, lastInv,
                   pendingAtUnmount, lastSync>>
    /\ UNCHANGED <<popVars, otherVars, canUndo>>

\* The prop-sync effect: if (editor && htmlContent !== editor.getHTML())
\*   editor.chain().focus().setMeta('addToHistory', false)
\*         .setContent(htmlContent, { emitUpdate: false }).run()
PropSyncEffect ==
    /\ caller # "hook"
    /\ mounted
    /\ editorReady
    /\ syncPending
    /\ \A tm \in timers : ~Due(tm)
    /\ LET html == Serialize(doc)
           push == editorSeen /\ NeedsPush(value, html)
       IN /\ doc' = IF push THEN Parse(value) ELSE doc
          /\ renderPending' = (renderPending \/ push)
          /\ canUndo' = (canUndo \/ (push /\ AddToHistoryOnSync))
          /\ pushesSinceSet' = IF push THEN pushesSinceSet + 1 ELSE pushesSinceSet
          /\ lastSync' = IF editorSeen
                         THEN [value |-> value, html |-> html, pushed |-> push,
                               before |-> doc, after |-> doc',
                               edited |-> (lastCall # None
                                           /\ lastCall.args = html),
                               undoBefore |-> canUndo,
                               undoAfter |-> canUndo']
                         ELSE lastSync
          /\ IF push /\ EmitUpdateOnSync
             THEN /\ nextTimerId <= MaxCalls
                  /\ DebouncedCallback(Serialize(doc'))
             ELSE UNCHANGED <<timers, timeoutRef, nextTimerId, lastCall,
                               endedBefore>>
    /\ syncPending' = FALSE
    /\ UNCHANGED <<mounted, caller, callback, delay, callbackRef,
                   cbEffectPending, htmlContent, value, nSets, editorReady,
                   editorSeen, nInvs, lastInv, pendingAtUnmount,
                   rendersSinceSet>>
    /\ UNCHANGED <<popVars, otherVars>>

InitBridge ==
    /\ InitCommon
    /\ InitPopMoreIdle
    /\ InitAsyncIdle
    /\ InitDisclosures
    /\ InitPopoverIdle
    /\ caller \in {"app", "generic"}
    /\ callback = 1
    /\ callbackRef = 1
    /\ delay = DebounceTicks
    /\ htmlContent \in (IF caller = "app" THEN {""} ELSE Markup)
    /\ value = htmlContent
    /\ renderPending = FALSE
    /\ nSets = 0
    /\ editorReady = FALSE
    /\ editorSeen = FALSE
    /\ doc = "empty"
    /\ syncPending = TRUE

NextBridge ==
    \/ MountEffects
    \/ \E d \in Docs : UserEdit(d)
    \/ RelayFire
    \/ \E v \in Markup : CallerSetsValue(v)
    \/ Render
    \/ PropSyncEffect
    \/ Tick
    \/ Unmount

SpecBridge == InitBridge /\ [][NextBridge]_vars

\* A caller whose prop changes only by storing every relayed value, the way
\* App's handleRichTextChange does; its initial value is any markup.
RelayEcho ==
    /\ RelayFire
    /\ htmlContent' = lastInv'.args

NextEcho ==
    \/ MountEffects
    \/ \E d \in Docs : UserEdit(d)
    \/ RelayEcho
    \/ Render
    \/ PropSyncEffect
    \/ Tick
    \/ Unmount

SpecEcho == InitBridge /\ [][NextEcho]_vars

\* ================================== Popover and the link form of the toolbar
\* URLs are sequences of tokens; the empty sequence is the empty string, and
\* it also stands for the null of `currentLink`.
NoLink == <<>>
Urls == {<<>>,
         <<"https", "://", "a.example">>,
         <<"ftp", "://", "a.example">>,
         <<"http", ":", "a.example">>,
         <<"javascript", ":", "alert(1)">>}
\* `protocols: ["http", "https"]`
Protocols == {"http", "https"}
\* Schemes the engine's own validation lets through.
DefaultSchemes == {"http", "https", "ftp", "mailto", "tel"}

\* url.startsWith(prefix)
StartsWith(url, prefix) ==
    /\ Len(prefix) <= Len(url)
    /\ SubSeq(url, 1, Len(prefix)) = prefix

\* ctx.defaultValidate(url)
DefaultValidate(url) == url # <<>> /\ url[1] \in DefaultSchemes

IsAllowedUri_defaultOnly(url) == DefaultValidate(url)
\* isAllowedUri of the link extension.
IsAllowedUri(url) ==
    /\ DefaultValidate(url)
    /\ \E protocol \in Protocols : StartsWith(url, <<protocol, "://">>)

\* handleSetLink(url): `ok` is what the engine's command chain returns when
\* nothing of this repository stands in its way.
HandleSetLink(url, ok) ==
    IF url # <<>> THEN IsAllowedUri(url) /\ ok   \* setLink({ href: url }).run()
                  ELSE ok                        \* unsetLink().run()

\* const isOpen = isControlled ? controlledOpen : internalOpen
IsOpen == IF isControlled THEN controlledOpen ELSE internalOpen

SetIsOpen_writesInternal(open) ==
    /\ internalOpen' = open
    /\ notes' = IF hasListener THEN Append(notes, open) ELSE notes
    /\ controlledOpen' = IF isControlled /\ hasListener THEN open
                         ELSE controlledOpen
    /\ lastReq' = [requested |-> open, wasOpen |-> IsOpen,
                   notified |-> hasListener,
                   openAfter |-> IF isControlled THEN controlledOpen'
                                 ELSE internalOpen']

\* Popover.setIsOpen(open).  A parent that controls the popover stores the
\* value it is notified of (App: onOpenChange={setIsPopoverOpen}).
SetIsOpen(open) ==
    /\ internalOpen' = IF ~isControlled THEN open ELSE internalOpen
    /\ notes' = IF hasListener THEN Append(notes, open) ELSE notes
    /\ controlledOpen' = IF isControlled /\ hasListener THEN open
                         ELSE controlledOpen
    /\ lastReq' = [requested |-> open, wasOpen |-> IsOpen,
                   notified |-> hasListener,
                   openAfter |-> IF isControlled THEN controlledOpen'
                                 ELSE internalOpen']

CanNotify == hasListener => Len(notes) < MaxNotes

ShouldClose_always(prevented) == TRUE
\* `if (!event.defaultPrevented) setIsOpen(false)` of PopoverClose (asChild).
ShouldClose(prevented) == ~prevented

\* The cloned child's onClick of PopoverClose (asChild): the child's own
\* handler has run and left `prevented`; then the popover is closed or not.
CloseAfterChild(button, result, prevented) ==
    /\ IF ShouldClose(prevented)
       THEN SetIsOpen(FALSE)
       ELSE UNCHANGED <<internalOpen, notes, controlledOpen, lastReq>>
    /\ lastClose' = [button |-> button, result |-> result,
                     prevented |-> prevented,
                     openAfter |-> IF isControlled THEN controlledOpen'
                                   ELSE internalOpen']

\* useEffect(() => setLinkInput(currentLink || ''), [currentLink])
SyncedInput(link, input) == IF link # currentLink THEN link ELSE input

\* A click on the trigger: useClick toggles.
TriggerClick ==
    /\ CanNotify
    /\ SetIsOpen(~IsOpen)
    /\ UNCHANGED <<isControlled, hasListener, linkInput, currentLink, lastClose>>
    /\ UNCHANGED <<editorVars, otherVars>>

\* A press outside the open popover or the Escape key: useDismiss.
Dismiss ==
    /\ IsOpen
    /\ CanNotify
    /\ SetIsOpen(FALSE)
    /\ UNCHANGED <<isControlled, hasListener, linkInput, currentLink, lastClose>>
    /\ UNCHANGED <<editorVars, otherVars>>

\* setIsOpen called through the context with a value of the caller's choice
\* (floating-ui's onOpenChange, or any consumer of PopoverContext).
RequestOpen(open) ==
    /\ CanNotify
    /\ SetIsOpen(open)
    /\ UNCHANGED <<isControlled, hasListener, linkInput, currentLink, lastClose>>
    /\ UNCHANGED <<editorVars, otherVars>>

\* The user types into the URL field of the open popover.
TypeLink(url) ==
    /\ IsOpen
    /\ url # linkInput
    /\ linkInput' = url
    /\ UNCHANGED <<isControlled, hasListener, controlledOpen, internalOpen,
                   currentLink, notes, lastReq, lastClose>>
    /\ UNCHANGED <<editorVars, otherVars>>

\* The Set button: const success = onSetLink(linkInput);
\*                 if (!success) e.preventDefault()
SetClick(ok) ==
    /\ IsOpen
    /\ CanNotify
    /\ LET success == HandleSetLink(linkInput, ok)
           link == IF success THEN linkInput ELSE currentLink
       IN /\ CloseAfterChild("set", success, ~success)
          /\ currentLink' = link
          /\ linkInput' = SyncedInput(link, linkInput)
    /\ UNCHANGED <<isControlled, hasListener>>
    /\ UNCHANGED <<editorVars, otherVars>>

\* The Unlink button (rendered while a link is active): onSetLink(null)
UnlinkClick(ok) ==
    /\ IsOpen
    /\ currentLink # NoLink
    /\ CanNotify
    /\ LET success == HandleSetLink(<<>>, ok)
           link == IF success THEN NoLink ELSE currentLink
       IN /\ CloseAfterChild("unlink", success, FALSE)
          /\ currentLink' = link
          /\ linkInput' = SyncedInput(link, linkInput)
    /\ UNCHANGED <<isControlled, hasListener>>
    /\ UNCHANGED <<editorVars, otherVars>>

\* Calls of the handler passed to a plain PopoverClose when it is clicked:
\* in `<button {...props} onClick={() => setIsOpen(false)}>` the later
\* onClick replaces the one that came in with props.
PlainHandlerRuns(hasHandler) == 0

\* A click on a plain PopoverClose (no asChild) of the open popover, given
\* an onClick or not; `prevents` says whether that handler would call
\* preventDefault if it ran.
PlainCloseClick(hasHandler, prevents) ==
    /\ IsOpen
    /\ CanNotify
    /\ hasHandler \/ ~prevents
    /\ SetIsOpen(FALSE)
    /\ lastPlain' = [hasHandler |-> hasHandler, prevents |-> prevents,
                     runs |-> PlainHandlerRuns(hasHandler),
                     openAfter |-> IF isControlled THEN controlledOpen'
                                   ELSE internalOpen']
    /\ UNCHANGED <<isControlled, hasListener, linkInput, currentLink, lastClose>>
    /\ UNCHANGED <<editorVars, discVars, lastRender, pair, asyncVars>>

\* The parts of a popover and what they may be given as children.
Parts == {"trigger", "content", "close"}
ChildKinds == {"none", "text", "element", "elements"}

\* React.Children.count(children)
ChildCount(c) ==
    CASE c = "none"     -> 0
      [] c = "text"     -> 1
      [] c = "element"  -> 1
      [] c = "elements" -> 2

\* React.isValidElement(children)
IsValidElement(c) == c = "element"

UsePopoverContext_lenient(provided) == "context"
\* usePopoverContext: throws when no Popover encloses the caller.
UsePopoverContext(provided) == IF provided THEN "context" ELSE "throw"

\* What rendering a part gives: "throw", "null" (nothing) or "element".
RenderPart(part, provided, asChild, children, open) ==
    IF UsePopoverContext(provided) = "throw" THEN "throw"
    ELSE CASE part = "trigger" -> "element"
           [] part = "content" -> IF ~open THEN "null" ELSE "element"
           [] part = "close" ->
                IF asChild /\ (ChildCount(children) > 1
                                \/ ~IsValidElement(children))
                THEN "throw" ELSE "element"

\* React renders a part, inside the popover or with no Popover around it.
\* Rendering calls no setter.
RenderPartStep(part, provided, asChild, children) ==
    /\ UNCHANGED <<editorVars, discVars, popVars, lastPlain, pair, asyncVars>>
    /\ lastRender' = [part |-> part, provided |-> provided,
                      asChild |-> asChild, children |-> children,
                      result |-> RenderPart(part, provided, asChild,
                                            children, IsOpen),
                      openBefore |-> IsOpen,
                      openAfter |-> IF isControlled THEN controlledOpen'
                                    ELSE internalOpen']
    /\ lastRender' # lastRender

\* The editor side at rest, for the runs that exercise the popover alone.
InitEditorIdle ==
    /\ caller = "hook"
    /\ callback = 1
    /\ callbackRef = 1
    /\ delay = DebounceTicks
    /\ htmlContent = ""
    /\ value = ""
    /\ renderPending = FALSE
    /\ nSets = 0
    /\ editorReady = FALSE
    /\ editorSeen = FALSE
    /\ doc = "empty"
    /\ syncPending = FALSE

\* The popover of the toolbar is uncontrolled without listener; App's is
\* controlled by isPopoverOpen with setIsPopoverOpen as listener.
InitPopover ==
    /\ InitCommon
    /\ InitPopMoreIdle
    /\ InitAsyncIdle
    /\ InitDisclosures
    /\ InitEditorIdle
    /\ isControlled \in BOOLEAN
    /\ hasListener \in BOOLEAN
    /\ isControlled => hasListener
    /\ controlledOpen = FALSE
    /\ internalOpen = FALSE
    /\ linkInput = <<>>
    /\ currentLink = <<>>
    /\ notes = <<>>
    /\ lastReq = None
    /\ lastClose = None

NextPopover ==
    \/ TriggerClick
    \/ Dismiss
    \/ \E open \in BOOLEAN : RequestOpen(open)
    \/ \E url \in Urls : TypeLink(url)
    \/ \E ok \in BOOLEAN : SetClick(ok)
    \/ \E ok \in BOOLEAN : UnlinkClick(ok)
    \/ \E hasHandler, prevents \in BOOLEAN : PlainCloseClick(hasHandler, prevents)

SpecPopover == InitPopover /\ [][NextPopover]_vars

\* The parts of a popover rendered while it opens and closes, and parts
\* rendered with no Popover around them.
NextParts ==
    \/ TriggerClick
    \/ Dismiss
    \/ \E part \in Parts, provided, asChild \in BOOLEAN, children \in ChildKinds :
          RenderPartStep(part, provided, asChild, children)

SpecParts == InitPopover /\ [][NextParts]_vars

\* ================= App's Copy button and the image input of the toolbar
NoDueConfirm == \A i \in 1..Len(confirmTimers) : confirmTimers[i] > 0
NoDueTimer == NoDueConfirm /\ \A tm \in timers : ~Due(tm)

\* A click on "Copy HTML to Clipboard".  The button's own handler starts
\* navigator.clipboard.writeText(htmlContent) with the htmlContent of the
\* render it was created in; the button is also the PopoverTrigger of App's
\* popover, so useClick toggles the popover in the same click.
CopyClick ==
    /\ mounted
    /\ nCopies < MaxCopies
    /\ CanNotify
    /\ NoDueTimer
    /\ nCopies' = nCopies + 1
    /\ writesInFlight' = writesInFlight + 1
    /\ lastCopy' = [text |-> value,
                    html |-> IF editorReady THEN Serialize(doc) ELSE "none"]
    /\ SetIsOpen(~IsOpen)
    /\ UNCHANGED <<isControlled, hasListener, linkInput, currentLink, lastClose>>
    /\ UNCHANGED <<editorVars, discVars,
                   popMoreVars, copied, confirmTimers, sinceWrite,
                   readsInFlight, nPicks, lastPick, lastRead, afterUnmount>>

\* The promise of a clipboard write settles.  Fulfilled: setCopied(true),
\* setIsPopoverOpen(true), setTimeout(..., 2000).  Rejected: alert(...).
\* Nothing ties the continuation to the component being mounted; state
\* updates of an unmounted component are dropped by React.
WriteDone(ok) ==
    /\ writesInFlight > 0
    /\ NoDueTimer
    /\ writesInFlight' = writesInFlight - 1
    /\ IF ok
       THEN /\ copied' = IF mounted THEN TRUE ELSE copied
            /\ controlledOpen' = IF mounted THEN TRUE ELSE controlledOpen
            /\ confirmTimers' = Append(confirmTimers, ConfirmTicks)
            /\ sinceWrite' = 0
       ELSE UNCHANGED <<copied, controlledOpen, confirmTimers, sinceWrite>>
    /\ UNCHANGED <<isControlled, hasListener, internalOpen, linkInput,
                   currentLink, notes, lastReq, lastClose>>
    /\ UNCHANGED <<editorVars, discVars,
                   popMoreVars, nCopies, lastCopy, readsInFlight,
                   nPicks, lastPick, lastRead, afterUnmount>>

\* The oldest confirmation timer is due: setCopied(false),
\* setIsPopoverOpen(false).  No code clears these timers.
ConfirmFire ==
    /\ confirmTimers # <<>>
    /\ Head(confirmTimers) = 0
    /\ confirmTimers' = Tail(confirmTimers)
    /\ copied' = IF mounted THEN FALSE ELSE copied
    /\ controlledOpen' = IF mounted THEN FALSE ELSE controlledOpen
    /\ afterUnmount' = IF mounted THEN afterUnmount
                       ELSE afterUnmount \cup {"confirm"}
    /\ UNCHANGED <<isControlled, hasListener, internalOpen, linkInput,
                   currentLink, notes, lastReq, lastClose>>
    /\ UNCHANGED <<editorVars, discVars,
                   popMoreVars, writesInFlight, nCopies, lastCopy,
                   sinceWrite, readsInFlight, nPicks, lastPick, lastRead>>

\* Outcomes of a FileReader read for which `onloadend` is dispatched:
\* the event follows a successful load and a failed one alike.
LoadEndAfter == {"load", "error"}

\* reader.result at loadend: the data URL, or null after an error.
ReaderResult(outcome) == IF outcome = "load" THEN "data-url" ELSE "null"

\* handleImageUpload: the change event of the hidden file input.
FileChange(hasFile) ==
    /\ mounted
    /\ nPicks < MaxPicks
    /\ NoDueTimer
    /\ nPicks' = nPicks + 1
    /\ readsInFlight' = IF hasFile THEN readsInFlight + 1 ELSE readsInFlight
    /\ lastPick' = [file |-> hasFile, started |-> hasFile]
    /\ UNCHANGED <<editorVars, discVars,
                   popVars, popMoreVars, copied, writesInFlight,
                   confirmTimers, nCopies, lastCopy, sinceWrite, lastRead,
                   afterUnmount>>

\* reader.onloadend: onAddImage(reader.result) is called whatever the
\* outcome; `ok` is what the engine's setImage command returns, and a false
\* result is logged with console.error.
ReadEnd(outcome, ok) ==
    /\ readsInFlight > 0
    /\ NoDueTimer
    /\ readsInFlight' = readsInFlight - 1
    /\ lastRead' = [outcome |-> outcome, called |-> outcome \in LoadEndAfter,
                    src |-> ReaderResult(outcome), success |-> ok,
                    reported |-> ~ok]
    /\ afterUnmount' = IF mounted THEN afterUnmount
                       ELSE afterUnmount \cup {"image"}
    /\ UNCHANGED <<editorVars, discVars,
                   popVars, popMoreVars, copied, writesInFlight,
                   confirmTimers, nCopies, lastCopy, sinceWrite, nPicks,
                   lastPick>>

\* App's popover: open={isPopoverOpen} onOpenChange={setIsPopoverOpen}.
InitAppPopover ==
    /\ isControlled = TRUE
    /\ hasListener = TRUE
    /\ controlledOpen = FALSE
    /\ internalOpen = FALSE
    /\ linkInput = <<>>
    /\ currentLink = <<>>
    /\ notes = <<>>
    /\ lastReq = None
    /\ lastClose = None

\* The Copy button, the clipboard, the confirmation timer and the image
\* input, with the editor at rest.
InitAsync ==
    /\ InitCommon
    /\ InitEditorIdle
    /\ InitAppPopover
    /\ InitPopMoreIdle
    /\ InitAsyncIdle
    /\ InitDisclosures

NextAsync ==
    \/ CopyClick
    \/ \E ok \in BOOLEAN : WriteDone(ok)
    \/ ConfirmFire
    \/ \E hasFile \in BOOLEAN : FileChange(hasFile)
    \/ \E outcome \in LoadEndAfter, ok \in BOOLEAN : ReadEnd(outcome, ok)
    \/ Tick
    \/ Unmount

SpecAsync == InitAsync /\ [][NextAsync]_vars

\* The Copy button and its confirmation popover alone: clicks, clipboard
\* results, the 2-second timers, and dismissals of the open popover.
NextCopy ==
    \/ CopyClick
    \/ \E ok \in BOOLEAN : WriteDone(ok)
    \/ ConfirmFire
    \/ Dismiss
    \/ Tick

SpecCopy == InitAsync /\ [][NextCopy]_vars

\* The editor with App as its caller, and the clicks on the Copy button.
\* What follows the clipboard write (SpecAsync) reads and writes nothing of
\* the editor, so the writes started here are left in flight.
InitApp ==
    /\ InitCommon
    /\ InitAppPopover
    /\ InitPopMoreIdle
    /\ InitAsyncIdle
    /\ InitDisclosures
    /\ caller = "app"
    /\ callback = 1
    /\ callbackRef = 1
    /\ delay = DebounceTicks
    /\ htmlContent = ""
    /\ value = ""
    /\ renderPending = FALSE
    /\ nSets = 0
    /\ editorReady = FALSE
    /\ editorSeen = FALSE
    /\ doc = "empty"
    /\ syncPending = TRUE

NextApp ==
    \/ MountEffects
    \/ \E d \in Docs : UserEdit(d)
    \/ RelayFire
    \/ Render
    \/ PropSyncEffect
    \/ Tick
    \/ Unmount
    \/ CopyClick

SpecApp == InitApp /\ [][NextApp]_vars

\* ================================ a controlled and an uncontrolled Popover
\* The ways to ask a popover to open or close: a click on the trigger
\* (useClick), a press outside or the Escape key (useDismiss), and a close
\* control inside the content (PopoverClose).
Triggers == {"click", "outside", "escape", "close"}

\* const isOpen = isControlled ? controlledOpen : internalOpen
PopOpen(p) == IF p.isControlled THEN p.controlledOpen ELSE p.internalOpen

Notifies_controlledOnly(isCtl) == isCtl
\* `onControlledOpenChange?.(open)` stands outside `if (!isControlled)`.
Notifies(isCtl) == TRUE

\* Popover.setIsOpen(open) on the popover p, whose parent supplies
\* onOpenChange and, when it controls the popover, stores the value it is
\* told (App: open={isPopoverOpen} onOpenChange={setIsPopoverOpen}).
AfterSetIsOpen(p, open) ==
    [p EXCEPT !.internalOpen = IF ~p.isControlled THEN open ELSE @,
              !.notes = IF Notifies(p.isControlled) THEN Append(@, open) ELSE @,
              !.controlledOpen = IF p.isControlled /\ Notifies(p.isControlled)
                                 THEN open ELSE @]

\* One trigger on the popover p: the trigger toggles; the dismissal
\* listeners and the close control exist only while the popover is open.
AfterTrigger(p, t) ==
    IF t = "click" THEN AfterSetIsOpen(p, ~PopOpen(p))
    ELSE IF PopOpen(p) THEN AfterSetIsOpen(p, FALSE)
    ELSE p

\* The next trigger of the script is applied to both popovers.
RunTrigger(t) ==
    /\ pair # None
    /\ Len(pair.script) < MaxScript
    /\ pair' = [script |-> Append(pair.script, t),
                ctl |-> AfterTrigger(pair.ctl, t),
                unc |-> AfterTrigger(pair.unc, t)]
    /\ UNCHANGED <<editorVars, discVars,
                   popVars, lastPlain, lastRender, asyncVars>>

\* Both popovers start in the same state: the parent's state of the
\* controlled one equals the defaultOpen of the uncontrolled one.
InitParity ==
    /\ InitCommon
    /\ InitEditorIdle
    /\ InitPopoverIdle
    /\ InitAsyncIdle
    /\ InitDisclosures
    /\ lastPlain = None
    /\ lastRender = None
    /\ \E b \in BOOLEAN :
          pair = [script |-> <<>>,
                  ctl |-> [isControlled |-> TRUE, controlledOpen |-> b,
                           internalOpen |-> FALSE, notes |-> <<>>],
                  unc |-> [isControlled |-> FALSE, controlledOpen |-> FALSE,
                           internalOpen |-> b, notes |-> <<>>]]

NextParity == \E t \in Triggers : RunTrigger(t)

SpecParity == InitParity /\ [][NextParity]_vars

\* ===================================== the disclosure instances of the toolbar
\* The toolbar of RichTextEditorUI holds one Popover (the link form) and two
\* ToolbarDropdownButtons (block type and alignment).
Disclosures == {"link", "heading", "align"}
Kind(i) == IF i = "link" THEN "Popover" ELSE "ToolbarDropdownButton"

\* The options handed to each dropdown.
Options(i) ==
    IF i = "heading"
    THEN {"paragraph", "heading1", "heading2", "heading3", "heading4",
          "heading5", "heading6"}
    ELSE IF i = "align" THEN {"left", "center", "right", "justify"}
    ELSE {}

\* PopoverContent returns null unless isOpen; the option list is written
\* `{isOpen && ( ... )}`.
FloatingRendered_hidden(open) == TRUE
FloatingRendered(open) == open

\* The `whileElementsMounted` option handed to useFloating: Popover passes
\* autoUpdate, ToolbarDropdownButton passes none.
WhileElementsMounted(i) ==
    IF Kind(i) = "Popover" THEN "autoUpdate" ELSE "none"

\* autoUpdate listens to scroll and resize for as long as the floating
\* element is mounted and recomputes the position on each event; without
\* it the position is computed when the elements mount and not again.
Recomputes(i) == discMounted[i] /\ WhileElementsMounted(i) = "autoUpdate"

\* The commit that follows a state update of the instances.
Commit(open) == [i \in Disclosures |-> FloatingRendered(open[i])]

\* Activation of the trigger of instance i: useClick (Popover) and the
\* button's own onClick (ToolbarDropdownButton) both ask for !isOpen.
DiscTrigger(i) ==
    /\ discOpen' = [discOpen EXCEPT ![i] = ~discOpen[i]]
    /\ discMounted' = Commit(discOpen')
    /\ UNCHANGED <<editorVars, popVars, popMoreVars, asyncVars, lastLayout,
                   lastSelect>>

\* useDismiss: an outside press or Escape closes instance i while it is open.
DiscDismiss(i) ==
    /\ discOpen[i]
    /\ discOpen' = [discOpen EXCEPT ![i] = FALSE]
    /\ discMounted' = Commit(discOpen')
    /\ UNCHANGED <<editorVars, popVars, popMoreVars, asyncVars, lastLayout,
                   lastSelect>>

\* A scroll or resize event reaches every instance.
LayoutEvent(ev) ==
    /\ lastLayout' = [event |-> ev,
                      open |-> {i \in Disclosures : discOpen[i]},
                      recomputed |-> {i \in Disclosures : Recomputes(i)}]
    /\ UNCHANGED <<editorVars, popVars, popMoreVars, asyncVars, discOpen,
                   discMounted, lastSelect>>

\* The option button's handler: `option.onClick(); setIsOpen(false)`.
OptionCalls(i, o) == [p \in Options(i) |-> IF p = o THEN 1 ELSE 0]
ClosesAfterSelect_onSuccess(ok) == ok
ClosesAfterSelect(ok) == TRUE

\* A click on option o of dropdown i, whose action reports ok; the option
\* buttons exist only while the list is in the DOM.
SelectOption(i, o, ok) ==
    /\ Kind(i) = "ToolbarDropdownButton"
    /\ discMounted[i]
    /\ o \in Options(i)
    /\ discOpen' = [discOpen EXCEPT
                      ![i] = IF ClosesAfterSelect(ok) THEN FALSE ELSE @]
    /\ discMounted' = Commit(discOpen')
    /\ lastSelect' = [inst |-> i, option |-> o, ok |-> ok,
                      calls |-> OptionCalls(i, o),
                      before |-> discOpen, after |-> discOpen']
    /\ UNCHANGED <<editorVars, popVars, popMoreVars, asyncVars, lastLayout>>

InitToolbar ==
    /\ InitCommon
    /\ InitEditorIdle
    /\ InitPopoverIdle
    /\ InitPopMoreIdle
    /\ InitAsyncIdle
    /\ InitDisclosures

NextToolbar ==
    \/ \E i \in Disclosures : DiscTrigger(i)
    \/ \E i \in Disclosures : DiscDismiss(i)
    \/ \E ev \in {"scroll", "resize"} : LayoutEvent(ev)
    \/ \E i \in Disclosures : \E o \in Options(i), ok \in BOOLEAN :
          SelectOption(i, o, ok)

SpecToolbar == InitToolbar /\ [][NextToolbar]_vars

\* ================================================================ claims
\* The quiet window of the burst that the latest call belongs to has elapsed.
EndedNow == lastCall # None /\ lastCall.age >= lastCall.d
\* Bursts (runs of calls less than `delay` apart) whose quiet window elapsed.
EndedBursts == endedBefore + (IF EndedNow THEN 1 ELSE 0)

\* C1 - Debounce collapse: while the owner is mounted there is exactly one
\* underlying invocation per burst of wrapper calls whose quiet window of
\* `delay` has elapsed (the one of a window elapsing at this very tick may
\* still be due); each invocation is made `delay` after the last call of
\* its burst, for that call and with its arguments, so no earlier call of
\* a burst is ever invoked.
C1_DebounceCollapse ==
    mounted =>
        /\ nInvs <= EndedBursts
        /\ nInvs < EndedBursts =>
              /\ nInvs = EndedBursts - 1
              /\ \E tm \in timers : tm.id = lastCall.id /\ Due(tm)
        /\ lastInv # None =>
              /\ lastInv.id = lastInv.call.id
              /\ lastInv.args = lastInv.call.args
              /\ lastInv.call.age = lastInv.call.d

C1_Witness ==
    /\ mounted
    /\ nInvs = 1
    /\ endedBefore = 0
    /\ lastInv # None
    /\ lastInv.id = 3
    /\ nextTimerId = 4

\* C2 - Debounce cancellation: once the owner is unmounted no timer is left
\* pending, and no timer that was pending at the unmount is ever run, so no
\* underlying invocation is made for it.
C2_DebounceCancellation ==
    ~mounted =>
        /\ timers = {}
        /\ lastInv # None => \A tm \in pendingAtUnmount : lastInv.id # tm.id

C2_Witness ==
    /\ ~mounted
    /\ \E tm \in pendingAtUnmount : tm.left < 0

\* C3 - No feedback loop: a step in which the prop-sync effect pushes the
\* caller's value into the engine schedules no relay and calls no onChange:
\* no wrapper call, no new timer and no underlying invocation is made.
C3_NoFeedbackLoop ==
    [][(pushesSinceSet' = pushesSinceSet + 1)
         => (lastCall' = lastCall /\ nInvs' = nInvs /\ timers' = timers)]_vars

C3_Witness ==
    /\ lastSync # None
    /\ lastSync.pushed
    /\ lastSync.after # lastSync.before
    /\ lastCall = None
    /\ nInvs = 0
    /\ ~renderPending /\ ~syncPending

\* C4 - Corrective push iff different: a run of the prop-sync effect writes
\* the engine exactly when the caller's value and the engine's serialized
\* output are different strings; the write loads the caller's value, and
\* without a write the document is untouched.  Every rendered change of the
\* value gets such a run.
C4_PushIffDifferent ==
    /\ lastSync # None =>
          /\ lastSync.pushed <=> (lastSync.value # lastSync.html)
          /\ lastSync.pushed => lastSync.after = Parse(lastSync.value)
          /\ ~lastSync.pushed => lastSync.after = lastSync.before
    /\ (mounted /\ editorSeen /\ (lastSync = None \/ lastSync.value # value))
          => syncPending

C4_Witness ==
    /\ lastSync # None
    /\ lastSync.pushed
    /\ lastSync.value = ""
    /\ lastSync.html = "<p></p>"

\* C5 - Bridge convergence: while the prop holds a value that the engine
\* serializes back unchanged, at most one corrective push is made for it,
\* whatever renders and ticks follow.
C5_BridgeConvergence ==
    Serialize(Parse(value)) = value => pushesSinceSet <= 1

C5_Witness ==
    /\ Serialize(Parse(value)) = value
    /\ pushesSinceSet = 1
    /\ rendersSinceSet = 1
    /\ ~renderPending /\ ~syncPending
    /\ Serialize(doc) # value

\* C6 - End-to-end relay, as claimed: with App as the caller, every burst of
\* user edits followed by a quiet window produces exactly one onChange call,
\* and the markup it carries is the engine's serialized document at that
\* moment.
C6_EndToEndRelay ==
    (caller = "app" /\ mounted) =>
        /\ C1_DebounceCollapse
        /\ lastInv # None => lastInv.args = lastInv.html

\* C7 - Latest target, as claimed: when the callback passed to the hook has
\* changed between the wrapper call that started a timer and the firing of
\* that timer, the invocation is of the callback of the latest render.
C7_LatestTarget ==
    lastInv # None =>
        (lastInv.call.cb # lastInv.latest => lastInv.cb = lastInv.latest)

\* C8 - Veto on close: after a close control wrapping a child is activated
\* on an open popover, the popover is still open if the child's handler
\* signalled prevention on the event, and it is closed if it did not.
C8_VetoOnClose ==
    lastClose # None =>
        /\ lastClose.prevented => lastClose.openAfter
        /\ ~lastClose.prevented => ~lastClose.openAfter

C8_Witness ==
    /\ lastClose # None
    /\ lastClose.button = "set"
    /\ lastClose.prevented
    /\ IsOpen
    /\ linkInput = <<"javascript", ":", "alert(1)">>

\* C9 - Command rejection keeps the popover open, as claimed: after the Set
\* or the Unlink button was activated, the popover is closed exactly when
\* the command invoked through onSetLink returned true.
C9_RejectionKeepsOpen ==
    lastClose # None => (~lastClose.openAfter <=> lastClose.result)

\* C10 - Disclosure idempotence, as claimed: a setIsOpen call that requests
\* the state the popover is already in changes nothing and does not invoke
\* onOpenChange.
C10_Idempotence ==
    (lastReq # None /\ lastReq.requested = lastReq.wasOpen) =>
        /\ lastReq.openAfter = lastReq.wasOpen
        /\ ~lastReq.notified

\* C11 - Controlled/uncontrolled parity: after every script of triggers
\* (trigger click, outside press, Escape, close control) run on a controlled
\* popover whose parent stores what it is told and on an uncontrolled popover
\* that started in the same state, onOpenChange has been called with the
\* same sequence of values on both.
C11_Parity ==
    pair # None => pair.ctl.notes = pair.unc.notes

C11_Witness ==
    /\ pair # None
    /\ pair.script = <<"click", "outside", "click", "close">>
    /\ pair.ctl.notes = <<TRUE, FALSE, TRUE, FALSE>>
    /\ pair.unc.notes = <<TRUE, FALSE, TRUE, FALSE>>
    /\ ~PopOpen(pair.ctl) /\ ~PopOpen(pair.unc)

\* C12 - Controlled mode: while an `open` prop is supplied, the open state
\* the trigger and the content read is that prop, the internal state still
\* holds its initial value (it is never written), and the latest requested
\* transition called onOpenChange with the requested value.
C12_ControlledMode ==
    isControlled =>
        /\ IsOpen = controlledOpen
        /\ internalOpen = FALSE
        /\ lastReq # None =>
              /\ lastReq.notified
              /\ notes # <<>>
              /\ notes[Len(notes)] = lastReq.requested

C12_Witness ==
    /\ isControlled
    /\ notes = <<TRUE, FALSE, TRUE>>
    /\ controlledOpen
    /\ ~internalOpen
    /\ lastReq # None /\ lastReq.requested /\ ~lastReq.wasOpen

\* C13 - Cancellation on unmount, as claimed: once the components are
\* unmounted, no end-of-read handler (with its onAddImage call) and no
\* confirmation timer callback (with its state updates) runs any more.
C13_CancelOnUnmount ==
    afterUnmount = {}

\* C15 - Image read failure is a silent no-op, as claimed: a change event
\* with no file starts no read, and a read that ends in an error calls
\* onAddImage not at all and reports nothing.
C15_ReadFailureNoOp ==
    /\ (lastPick # None /\ ~lastPick.file) => ~lastPick.started
    /\ (lastRead # None /\ lastRead.outcome = "error") =>
          (~lastRead.called /\ ~lastRead.reported)

\* C16 - Clipboard export writes the current markup, as claimed: the text a
\* click on the Copy button hands to the clipboard is the engine's
\* serialized document at the time of the click.
C16_CopyIsCurrent ==
    (lastCopy # None /\ lastCopy.html # "none") =>
        lastCopy.text = lastCopy.html

\* C17 - Confirmation lasts 2 seconds, as claimed: from a successful
\* clipboard write until ConfirmTicks later the copied flag is set and the
\* popover is open, whatever clicks come in between; once that time is over
\* and the due timer has run, the flag is cleared.
C17_ConfirmationLasts ==
    (mounted /\ sinceWrite # NoWrite) =>
        /\ sinceWrite < ConfirmTicks => (copied /\ controlledOpen)
        /\ (sinceWrite = ConfirmTicks /\ NoDueConfirm) => ~copied

\* Nothing is left to run: the editor is on screen, no debounce timer is
\* pending, no render is asked for and every effect of the last render ran.
Quiescent ==
    /\ mounted
    /\ editorSeen
    /\ timers = {}
    /\ ~renderPending
    /\ ~syncPending

\* C14 - Prop and engine are reconciled, as claimed: with a caller that
\* feeds every relayed value back, in every quiescent state the value prop
\* is the very string the engine serializes its document to.
C14_Reconciled ==
    Quiescent => value = Serialize(doc)

\* C14, amended: in every quiescent state the value prop and the engine's
\* document are the same document (the prop parses to the document the
\* engine holds); as strings they differ when the prop is not in the
\* engine's normal form.
C14_ReconciledUpToNormalForm ==
    Quiescent => Parse(value) = doc

C14_Witness ==
    /\ Quiescent
    /\ nInvs > 0
    /\ lastSync # None /\ lastSync.pushed
    /\ lastSync.value = "<p>b</p>"
    /\ lastSync.before = "empty"
    /\ value = "<p>b</p>"
    /\ doc = "b"

\* C18 - Context misuse is thrown: rendering a trigger, a content or a close
\* part with no Popover around it throws; rendering a close part with
\* asChild and more than one child, or with a child that is not an element,
\* throws; a render that throws yields no element and leaves the open state
\* as it was.
C18_MisuseThrows ==
    lastRender # None =>
        /\ ~lastRender.provided => lastRender.result = "throw"
        /\ (lastRender.part = "close" /\ lastRender.asChild
               /\ lastRender.children \in {"text", "elements"})
              => lastRender.result = "throw"
        /\ lastRender.result = "throw" =>
              lastRender.openAfter = lastRender.openBefore

C18_Witness ==
    /\ lastRender # None
    /\ lastRender.part = "content"
    /\ ~lastRender.provided
    /\ lastRender.result = "throw"
    /\ IsOpen
    /\ lastRender.openBefore

\* C19 - Close control runs its own handler first, as claimed: a close
\* control wrapping a child leaves the popover open exactly when the
\* child's handler signalled prevention; a plain close control given a
\* handler runs that handler exactly once, and closes the popover only if
\* the handler did not signal prevention.
C19_OwnHandlerFirst ==
    /\ lastClose # None => (lastClose.openAfter <=> lastClose.prevented)
    /\ lastPlain # None =>
          /\ lastPlain.hasHandler => lastPlain.runs = 1
          /\ (lastPlain.hasHandler /\ lastPlain.prevents)
                => lastPlain.openAfter

\* C20 - Normalization costs exactly one push: while the prop holds a value
\* the engine serializes back as a different string, at most one corrective
\* push is made for it, and exactly one once the effect of the render that
\* showed the value to the editor has run; if the user never edited, no
\* debounce timer was started and onChange was never called.
C20_OnePushThenStable ==
    Serialize(Parse(value)) # value =>
        /\ pushesSinceSet <= 1
        /\ (mounted /\ editorSeen /\ ~syncPending) => pushesSinceSet = 1
        /\ lastCall = None => (nInvs = 0 /\ timers = {})

C20_Witness ==
    /\ value = "<P>a</P>"
    /\ nSets = 1
    /\ pushesSinceSet = 1
    /\ rendersSinceSet = 1
    /\ Quiescent
    /\ doc = "a"
    /\ lastSync # None /\ lastSync.before = "b"
    /\ nInvs = 1

\* C21 - Position recomputation while open: at every scroll or resize event
\* the instances whose floating position is recomputed are exactly the
\* instances (the Popover and each ToolbarDropdownButton) open at that event.
C21_RecomputeWhileOpen ==
    lastLayout # None => lastLayout.recomputed = lastLayout.open

\* C22 - Floating content is mounted exactly while open: for the Popover's
\* content and for the option list of each ToolbarDropdownButton, the
\* content is in the DOM if and only if the instance is open.
C22_MountedIffOpen ==
    \A i \in Disclosures : discMounted[i] <=> discOpen[i]

C22_Witness ==
    /\ discOpen["link"] /\ discMounted["link"]
    /\ discOpen["align"] /\ discMounted["align"]
    /\ ~discOpen["heading"] /\ ~discMounted["heading"]
    /\ lastSelect # None /\ lastSelect.inst = "heading"

\* C23 - Corrective pushes are not recorded in history: a corrective push
\* leaves the availability of undo as it was, and as long as the user has
\* not edited, whatever the initial value and the pushes made, canUndo is
\* false and the Undo button is disabled.
C23_PushNotInHistory ==
    /\ (lastSync # None /\ lastSync.pushed)
          => lastSync.undoAfter = lastSync.undoBefore
    /\ lastCall = None => (~canUndo /\ UndoDisabled)

C23_Witness ==
    /\ lastCall = None
    /\ lastSync # None /\ lastSync.pushed
    /\ lastSync.before # lastSync.after
    /\ pushesSinceSet = 1 /\ nSets = 1
    /\ UndoDisabled

\* C24 - Link URI allow-list: a set-link request for a non-empty URL is
\* accepted only if the URL passes the default validation and starts with
\* `http://` or `https://`; for every other non-empty URL the handler
\* reports false and the active link stays as it was; an empty or null URL
\* that is accepted removes the link.
C24_LinkAllowList ==
    [][LET http(url) == /\ DefaultValidate(url)
                        /\ Len(url) >= 2
                        /\ url[1] \in {"http", "https"}
                        /\ url[2] = "://"
           outcome(url) ==
               /\ (url # <<>> /\ lastClose'.result) => http(url)
               /\ (url # <<>> /\ ~http(url)) =>
                     (~lastClose'.result /\ currentLink' = currentLink)
               /\ (url # <<>> /\ lastClose'.result) => currentLink' = url
               /\ (url = <<>> /\ lastClose'.result) => currentLink' = NoLink
               /\ ~lastClose'.result => currentLink' = currentLink
       IN /\ (\E ok \in BOOLEAN : SetClick(ok)) => outcome(linkInput)
          /\ (\E ok \in BOOLEAN : UnlinkClick(ok)) => outcome(<<>>)]_vars

C24_Witness ==
    /\ lastClose # None
    /\ lastClose.button = "set"
    /\ ~lastClose.result
    /\ linkInput = <<"http", ":", "a.example">>
    /\ currentLink = <<"https", "://", "a.example">>

\* C25 - Link input shows the active link on open: at every step that takes
\* the link popover from closed to open, the URL field holds the link active
\* in the editor (the empty string if there is none).
C25_InputShowsActiveLink ==
    [][(~IsOpen /\ IsOpen') => linkInput' = currentLink']_vars

\* C26 - User edits are never overwritten by the echo: with a caller that
\* echoes every relayed value back as the prop, a corrective push made while
\* the engine holds the user's latest edit leaves the document as it is (it
\* never replaces that edit with the older markup of the prop).
C26_EditNotOverwritten ==
    (lastSync # None /\ lastSync.pushed /\ lastSync.edited)
        => lastSync.after = lastSync.before

\* C27 - Relayed value is current: the markup handed to onChange equals the
\* engine's serialized document at the moment of the call, whatever the
\* caller did to the prop while the relay was pending.
C27_RelayedValueCurrent ==
    (lastInv # None /\ lastInv.html # "none") => lastInv.args = lastInv.html

\* C28 - Confirmation popover is open only after a successful copy: whenever
\* App's popover is open, the `copied` flag is set.
C28_OpenOnlyWhenCopied ==
    IsOpen => copied

\* C29 - At most one pending timer: after any sequence of wrapper calls,
\* timer firings and renders with another `delay` or another callback, the
\* hook instance has at most one live timer.
C29_OneLiveTimer ==
    Cardinality(timers) <= 1

C29_Witness ==
    /\ Cardinality(timers) = 1
    /\ nextTimerId = 4
    /\ nInvs = 0
    /\ lastCall.d # delay
    /\ lastCall.cb # callback
    /\ \E tm \in timers : tm.id = 3 /\ tm.left < lastCall.d

====
